---- MODULE Spec2Model ----
(* ROI bounds engine of pyxalign (transformations/helpers.py): the       *)
(* conversion of a centre-offset/extent rectangle into absolute pixel     *)
(* bounds of a 2D array and the clamping of those bounds.                 *)
EXTENDS Integers, Sequences, FiniteSets, TLC

(* ---------------------------------------------------------------------- *)
(* Bounds of the input space                                              *)
(* ---------------------------------------------------------------------- *)
MaxDim == 4
MaxExtent == 5
MaxOffset == 3

(* round_to_divisor inputs *)
MaxValue == 7
MaxDivisor == 5
MaxSeqLen == 2

(* calls of unwrap_phase in one session of the widget *)
MaxRuns == 3

(* ROI selector sessions: images of MaxImage - 1 rows and MaxImage        *)
(* columns, ranges of options and dragged sizes up to MaxGuiRange,        *)
(* dragged positions -1..MaxDragPos, at most MaxEdits drags, spinbox      *)
(* edits and set_roi_options calls.                                       *)
MaxImage == 3
MaxGuiRange == 2
MaxDragPos == 1
MaxEdits == 2

(* options/graphics round trips: offsets -MaxTripOffset..MaxTripOffset,   *)
(* ranges 1..MaxTripRange                                                 *)
MaxTripOffset == 3
MaxTripRange == 3

(* Optional[int]: None is the empty tuple, a concrete integer n is <<n>>. *)
None == <<>>

Some(n) == <<n>>

(* array_2d_size values: (height, width); 0 is the non-positive case.     *)
Dims == 0..MaxDim

(* horizontal_range / vertical_range values: None, or an integer; the     *)
(* negative ones are the explicitly negative extents.                     *)
Ranges == {None} \cup {Some(n) : n \in (-2)..MaxExtent}

Offsets == (-MaxOffset)..MaxOffset

(* ---------------------------------------------------------------------- *)
(* api/options/roi.py                                                     *)
(* ---------------------------------------------------------------------- *)
RectangularROIOptions(hr, vr, ho, vo) ==
    [horizontal_range |-> hr, vertical_range |-> vr,
     horizontal_offset |-> ho, vertical_offset |-> vo]

(* ---------------------------------------------------------------------- *)
(* transformations/helpers.py                                             *)
(* ---------------------------------------------------------------------- *)
(* pyxalign.api.enums.RoundType, as used at lines 38-43.                  *)
RoundType == {"CEIL", "FLOOR", "NEAREST"}

(* np.ceil(x / divisor), np.floor(x / divisor), np.round(x / divisor) for *)
(* integer x and positive integer divisor; np.round rounds an exact half  *)
(* to the even neighbour.                                                 *)
np_ceil(x, divisor) == -((-x) \div divisor)

np_floor(x, divisor) == x \div divisor

np_round(x, divisor) ==
    LET q == x \div divisor
        r == x % divisor
    IN IF 2 * r < divisor THEN q
       ELSE IF 2 * r > divisor THEN q + 1
       ELSE IF q % 2 = 0 THEN q ELSE q + 1

(* rounding_func with np.floor where np.ceil is meant.                    *)
rounding_func_CeilAsFloor(x, round_type, divisor) ==
    IF round_type = "CEIL" THEN np_floor(x, divisor) * divisor
    ELSE IF round_type = "FLOOR" THEN np_floor(x, divisor) * divisor
    ELSE np_round(x, divisor) * divisor

(* lines 38-46: int(func(x / divisor) * divisor) *)
rounding_func(x, round_type, divisor) ==
    IF round_type = "CEIL" THEN np_ceil(x, divisor) * divisor
    ELSE IF round_type = "FLOOR" THEN np_floor(x, divisor) * divisor
    ELSE np_round(x, divisor) * divisor

(* lines 33-52: input is [scalar |-> TRUE, v |-> number] or               *)
(* [scalar |-> FALSE, v |-> sequence] (an object with __len__); the       *)
(* sequence is rounded element by element.                                *)
round_to_divisor(input, round_type, divisor) ==
    IF input.scalar
    THEN [scalar |-> TRUE, v |-> rounding_func(input.v, round_type, divisor)]
    ELSE [scalar |-> FALSE,
          v |-> [i \in 1..Len(input.v) |->
                    rounding_func(input.v[i], round_type, divisor)]]

(* int(np.floor(n / 2)): floor division, also for negative n.             *)
FloorHalf(n) == n \div 2

(* lines 63-66: an unset range becomes the array dimension.               *)
ResolveRange(range, dim) == IF range = None THEN dim ELSE range[1]

(* CandidateBounds with the half-extent rounded up instead of down.       *)
CandidateBounds_CeilHalf(horizontal_range, vertical_range, horizontal_offset, vertical_offset, array_2d_size) ==
    LET w_x == ResolveRange(horizontal_range, array_2d_size[2])
        w_y == ResolveRange(vertical_range, array_2d_size[1])
        x0 == FloorHalf(array_2d_size[2])
        y0 == FloorHalf(array_2d_size[1])
        c_x == horizontal_offset
        c_y == vertical_offset
    IN [x_start |-> x0 + c_x - FloorHalf(w_x + 1),
        x_end |-> x0 + c_x + FloorHalf(w_x + 1),
        y_start |-> y0 + c_y - FloorHalf(w_y + 1),
        y_end |-> y0 + c_y + FloorHalf(w_y + 1),
        c_x |-> c_x, c_y |-> c_y, out_of_bounds |-> FALSE]

(* lines 68-78: the candidate bounds and the initial locals.              *)
CandidateBounds(horizontal_range, vertical_range, horizontal_offset, vertical_offset, array_2d_size) ==
    LET w_x == ResolveRange(horizontal_range, array_2d_size[2])
        w_y == ResolveRange(vertical_range, array_2d_size[1])
        x0 == FloorHalf(array_2d_size[2])
        y0 == FloorHalf(array_2d_size[1])
        c_x == horizontal_offset
        c_y == vertical_offset
    IN [x_start |-> x0 + c_x - FloorHalf(w_x),
        x_end |-> x0 + c_x + FloorHalf(w_x),
        y_start |-> y0 + c_y - FloorHalf(w_y),
        y_end |-> y0 + c_y + FloorHalf(w_y),
        c_x |-> c_x, c_y |-> c_y, out_of_bounds |-> FALSE]

(* ClampLowX with the sign of the recentred offset lost.                  *)
ClampLowX_SignLost(f, array_2d_size) ==
    IF f.x_start < 0
    THEN LET x_start == 0
         IN [f EXCEPT !.x_start = x_start,
                      !.c_x = FloorHalf(array_2d_size[2])
                              - FloorHalf(f.x_end - x_start),
                      !.out_of_bounds = TRUE]
    ELSE f

(* lines 79-82 *)
ClampLowX(f, array_2d_size) ==
    IF f.x_start < 0
    THEN LET x_start == 0
         IN [f EXCEPT !.x_start = x_start,
                      !.c_x = -(FloorHalf(array_2d_size[2])
                                - FloorHalf(f.x_end - x_start)),
                      !.out_of_bounds = TRUE]
    ELSE f

(* ClampHighX with the offset set to the new half-width itself.           *)
ClampHighX_HalfOnly(f, array_2d_size) ==
    IF f.x_end > array_2d_size[2]
    THEN LET x_end == array_2d_size[2]
         IN [f EXCEPT !.x_end = x_end,
                      !.c_x = FloorHalf(x_end - f.x_start),
                      !.out_of_bounds = TRUE]
    ELSE f

(* lines 83-86 *)
ClampHighX(f, array_2d_size) ==
    IF f.x_end > array_2d_size[2]
    THEN LET x_end == array_2d_size[2]
         IN [f EXCEPT !.x_end = x_end,
                      !.c_x = FloorHalf(array_2d_size[2])
                              - FloorHalf(x_end - f.x_start),
                      !.out_of_bounds = TRUE]
    ELSE f

(* lines 87-90 *)
ClampLowY(f, array_2d_size) ==
    IF f.y_start < 0
    THEN LET y_start == 0
         IN [f EXCEPT !.y_start = y_start,
                      !.c_y = -(FloorHalf(array_2d_size[1])
                                - FloorHalf(f.y_end - y_start)),
                      !.out_of_bounds = TRUE]
    ELSE f

(* ClampHighY without the assignment out_of_bounds = True.                *)
ClampHighY_NoFlag(f, array_2d_size) ==
    IF f.y_end > array_2d_size[1]
    THEN LET y_end == array_2d_size[1]
         IN [f EXCEPT !.y_end = y_end,
                      !.c_y = FloorHalf(array_2d_size[1])
                              - FloorHalf(y_end - f.y_start)]
    ELSE f

(* lines 91-94 *)
ClampHighY(f, array_2d_size) ==
    IF f.y_end > array_2d_size[1]
    THEN LET y_end == array_2d_size[1]
         IN [f EXCEPT !.y_end = y_end,
                      !.c_y = FloorHalf(array_2d_size[1])
                              - FloorHalf(y_end - f.y_start),
                      !.out_of_bounds = TRUE]
    ELSE f

(* ClampEdges with the high-edge tests written as elif of the low-edge    *)
(* tests, so that one axis gets at most one correction.                   *)
ClampEdges_Elif(f, array_2d_size) ==
    LET fx == IF f.x_start < 0 THEN ClampLowX(f, array_2d_size)
                               ELSE ClampHighX(f, array_2d_size)
    IN IF fx.y_start < 0 THEN ClampLowY(fx, array_2d_size)
                         ELSE ClampHighY(fx, array_2d_size)

(* lines 78-94: the four corrections in the order of the code.            *)
ClampEdges(f, array_2d_size) ==
    ClampHighY(ClampLowY(ClampHighX(ClampLowX(f, array_2d_size),
                                    array_2d_size),
                         array_2d_size),
               array_2d_size)

(* Raises as it would be with argument validation at the top.             *)
Raises_Validating(horizontal_range, vertical_range, array_2d_size) ==
    \/ horizontal_range # None /\ horizontal_range[1] < 0
    \/ vertical_range # None /\ vertical_range[1] < 0
    \/ array_2d_size[1] <= 0
    \/ array_2d_size[2] <= 0

(* The function has no raise statement and validates nothing.             *)
Raises(horizontal_range, vertical_range, array_2d_size) == FALSE

(* lines 55-98: the returned tuple (new_w_x, new_w_y, c_x, c_y,           *)
(* out_of_bounds), together with the locals x_start .. y_end the function *)
(* ends with and whether it raised.                                       *)
force_roi_parameters_into_array_bounds(horizontal_range, vertical_range, horizontal_offset, vertical_offset, array_2d_size) ==
    LET f == ClampEdges(CandidateBounds(horizontal_range, vertical_range,
                            horizontal_offset, vertical_offset,
                            array_2d_size), array_2d_size)
    IN [new_w_x |-> f.x_end - f.x_start,
        new_w_y |-> f.y_end - f.y_start,
        c_x |-> f.c_x, c_y |-> f.c_y,
        out_of_bounds |-> f.out_of_bounds,
        x_start |-> f.x_start, x_end |-> f.x_end,
        y_start |-> f.y_start, y_end |-> f.y_end,
        raised |-> Raises(horizontal_range, vertical_range, array_2d_size)]

(* The wrapper with the horizontal and vertical results crossed.          *)
force_rectangular_roi_in_bounds_Crossed(h, ref, array_2d_size) ==
    LET r == force_roi_parameters_into_array_bounds(
                 h[ref].horizontal_range, h[ref].vertical_range,
                 h[ref].horizontal_offset, h[ref].vertical_offset,
                 array_2d_size)
        new_rect_roi_options ==
            RectangularROIOptions(Some(r.new_w_y), Some(r.new_w_x),
                                  r.c_y, r.c_x)
    IN [heap |-> Append(h, new_rect_roi_options),
        value |-> [ref |-> Len(h) + 1],
        frame |-> r]

(* The wrapper writing the corrected values into its argument and         *)
(* returning that same object.                                            *)
force_rectangular_roi_in_bounds_InPlace(h, ref, array_2d_size) ==
    LET r == force_roi_parameters_into_array_bounds(
                 h[ref].horizontal_range, h[ref].vertical_range,
                 h[ref].horizontal_offset, h[ref].vertical_offset,
                 array_2d_size)
    IN [heap |-> [h EXCEPT ![ref] =
                     RectangularROIOptions(Some(r.new_w_x), Some(r.new_w_y),
                                           r.c_x, r.c_y)],
        value |-> [ref |-> ref],
        frame |-> r]

(* lines 101-118: the wrapper reads the four fields of the object ref of  *)
(* the heap h, constructs a new RectangularROIOptions and returns it; the *)
(* out_of_bounds flag is dropped.  value is what the caller receives.     *)
force_rectangular_roi_in_bounds(h, ref, array_2d_size) ==
    LET r == force_roi_parameters_into_array_bounds(
                 h[ref].horizontal_range, h[ref].vertical_range,
                 h[ref].horizontal_offset, h[ref].vertical_offset,
                 array_2d_size)
        new_rect_roi_options ==
            RectangularROIOptions(Some(r.new_w_x), Some(r.new_w_y),
                                  r.c_x, r.c_y)
    IN [heap |-> Append(h, new_rect_roi_options),
        value |-> [ref |-> Len(h) + 1],
        frame |-> r]

(* ---------------------------------------------------------------------- *)
(* interactions/roi_selector.py: ROISelector                              *)
(* ---------------------------------------------------------------------- *)
(* api/options/roi.py 28-32: an ROIOptions object refers to its rectangle *)
ROIOptions(rectangle) == [shape |-> "rectangular", rectangle |-> rectangle]

(* line 135 *)
spinbox_max_val == 10000000

SpinNames == {"horizontal_offset", "vertical_offset", "horizontal_range", "vertical_range"}

(* lines 139, 147, 155, 164: setRange of each spinbox *)
SpinMinimum(name) ==
    IF name \in {"horizontal_offset", "vertical_offset"}
    THEN -spinbox_max_val ELSE 1

SpinMaximum(name) == spinbox_max_val

(* QSpinBox keeps its value inside [minimum, maximum] *)
SpinBound(name, v) ==
    IF v < SpinMinimum(name) THEN SpinMinimum(name)
    ELSE IF v > SpinMaximum(name) THEN SpinMaximum(name) ELSE v

(* int(pos + size / 2) for integral pos and size: the half is a float and *)
(* int() drops the fraction towards zero.                                 *)
IntOfCentre(pos, size) ==
    LET twice == 2 * pos + size
    IN IF twice >= 0 THEN twice \div 2 ELSE -((-twice) \div 2)

(* A world w is the selector with the objects it can reach: heap (the     *)
(* rectangle objects), roi (the ROIOptions objects), roi_options,         *)
(* roi_item, spinboxes, signals_blocked, updating_from_graphics, slots    *)
(* (connections of on_roi_changed to sigRegionChanged), emitted           *)
(* (roi_changed emissions of the current event) and log (handler bodies   *)
(* run in the current event).                                             *)
RectRef(w) == w.roi[w.roi_options].rectangle

Rect(w) == w.heap[RectRef(w)]

RECURSIVE on_roi_changed(_)

RECURSIVE on_spinbox_changed(_)

RECURSIVE Deliver(_, _)

(* sigRegionChanged.emit: every connection runs on_roi_changed once.      *)
Deliver(w, n) == IF n <= 0 THEN w ELSE Deliver(on_roi_changed(w), n - 1)

(* QSpinBox.setValue: the value is bounded by the range; valueChanged     *)
(* goes to on_spinbox_changed when the value changed and the signals are  *)
(* not blocked.                                                           *)
StoreValue(w, name, v) == [w EXCEPT !.spinboxes[name] = SpinBound(name, v)]

setValue(w, name, v) ==
    IF SpinBound(name, v) = w.spinboxes[name] \/ w.signals_blocked[name]
    THEN StoreValue(w, name, v)
    ELSE on_spinbox_changed(StoreValue(w, name, v))

(* pg.ROI.setPos / setSize: sigRegionChanged is emitted when the state    *)
(* changed.                                                               *)
setPos(w, pos) ==
    IF pos = w.roi_item.pos THEN w
    ELSE Deliver([w EXCEPT !.roi_item.pos = pos], w.slots)

setSize(w, size) ==
    IF size = w.roi_item.size THEN w
    ELSE Deliver([w EXCEPT !.roi_item.size = size], w.slots)

(* lines 312-313 and 321-322 *)
blockSignals(w, block) ==
    [w EXCEPT !.signals_blocked = [n \in SpinNames |-> block]]

(* lines 315-318: one setValue with the field of the object rect that     *)
(* line 309 read                                                          *)
SetSpinbox(w, rect, name) ==
    setValue(w, name,
             IF name \in {"horizontal_range", "vertical_range"}
             THEN w.heap[rect][name][1] ELSE w.heap[rect][name])

(* lines 307-322 *)
update_spinboxes_from_roi(w) ==
    blockSignals(
        SetSpinbox(
            SetSpinbox(
                SetSpinbox(
                    SetSpinbox(blockSignals(w, TRUE),
                               RectRef(w), "horizontal_offset"),
                    RectRef(w), "vertical_offset"),
                RectRef(w), "horizontal_range"),
            RectRef(w), "vertical_range"),
        FALSE)

(* lines 326-338: the top-left position of the rectangle of the options   *)
GraphicsPos(rect_opts, shape) ==
    <<shape[2] \div 2 + rect_opts.horizontal_offset
          - (rect_opts.horizontal_range[1] \div 2),
      shape[1] \div 2 + rect_opts.vertical_offset
          - (rect_opts.vertical_range[1] \div 2)>>

(* line 341 and line 348 *)
disconnect(w) == [w EXCEPT !.slots = @ - 1]

connect(w) == [w EXCEPT !.slots = @ + 1]

(* line 345: setSize with the ranges of the object rect_opts *)
SetSizeFromOptions(w, rect_opts) ==
    setSize(w, <<w.heap[rect_opts].horizontal_range[1],
                 w.heap[rect_opts].vertical_range[1]>>)

(* update_roi_graphics_from_options without disconnect and reconnect.     *)
update_roi_graphics_from_options_Connected(w) ==
    SetSizeFromOptions(setPos(w, GraphicsPos(Rect(w), w.shape)), RectRef(w))

(* lines 324-348, for options whose ranges are set *)
update_roi_graphics_from_options(w) ==
    connect(SetSizeFromOptions(
                setPos(disconnect(w), GraphicsPos(Rect(w), w.shape)),
                RectRef(w)))

(* line 257 *)
BeginGraphicsUpdate(w) ==
    [w EXCEPT !.updating_from_graphics = TRUE,
              !.log = Append(@, "on_roi_changed")]

(* lines 259-280: the options are rewritten from the rectangle on screen  *)
OptionsFromGraphics(w) ==
    [w EXCEPT !.heap[RectRef(w)] =
        RectangularROIOptions(
            Some(w.roi_item.size[1]),
            Some(w.roi_item.size[2]),
            IntOfCentre(w.roi_item.pos[1], w.roi_item.size[1])
                - (w.shape[2] \div 2),
            IntOfCentre(w.roi_item.pos[2], w.roi_item.size[2])
                - (w.shape[1] \div 2))]

(* roi_changed.emit (lines 286, 305, 375) *)
EmitRoiChanged(w) == [w EXCEPT !.emitted = @ + 1]

(* line 288 *)
EndGraphicsUpdate(w) == [w EXCEPT !.updating_from_graphics = FALSE]

(* lines 252-288 *)
on_roi_changed(w) ==
    IF w.updating_from_graphics THEN w
    ELSE EndGraphicsUpdate(
             EmitRoiChanged(
                 update_spinboxes_from_roi(
                     OptionsFromGraphics(BeginGraphicsUpdate(w)))))

(* lines 296-299: the options are rewritten from the spinboxes *)
OptionsFromSpinboxes(w) ==
    [w EXCEPT !.log = Append(@, "on_spinbox_changed"),
              !.heap[RectRef(w)] =
                  RectangularROIOptions(
                      Some(w.spinboxes["horizontal_range"]),
                      Some(w.spinboxes["vertical_range"]),
                      w.spinboxes["horizontal_offset"],
                      w.spinboxes["vertical_offset"])]

(* lines 290-305 *)
on_spinbox_changed(w) ==
    IF w.updating_from_graphics THEN w
    ELSE EmitRoiChanged(
             update_roi_graphics_from_options(OptionsFromSpinboxes(w)))

(* lines 369-375; a range that is None makes line 337 raise before        *)
(* anything is touched.                                                   *)
ShowOptions(w) ==
    IF Rect(w).horizontal_range = None \/ Rect(w).vertical_range = None
    THEN [w EXCEPT !.raised = TRUE]
    ELSE EmitRoiChanged(
             update_spinboxes_from_roi(update_roi_graphics_from_options(w)))

(* lines 359-375: the caller's object becomes self.roi_options.           *)
set_roi_options(w, roi_options) ==
    ShowOptions([w EXCEPT !.roi_options = roi_options])

(* lines 76-86: the selector's own options, a default object or a deep    *)
(* copy of the given one, with unset ranges resolved to the array.        *)
OwnOptions(given, shape) ==
    [given EXCEPT
        !.horizontal_range = IF @ = None THEN Some(shape[2]) ELSE @,
        !.vertical_range = IF @ = None THEN Some(shape[1]) ELSE @]

(* create_roi_info_display (117-181) and setup_roi_graphics (183-247)     *)
(* for the selector's options own, added to the objects h and r.          *)
Constructed(h, r, own, shape) ==
    [heap |-> Append(h, own),
     roi |-> Append(r, ROIOptions(Len(h) + 1)),
     roi_options |-> Len(r) + 1,
     shape |-> shape,
     roi_item |-> [pos |-> GraphicsPos(own, shape),
                   size |-> <<own.horizontal_range[1],
                              own.vertical_range[1]>>],
     spinboxes |->
         [n \in SpinNames |->
             SpinBound(n, IF n \in {"horizontal_range", "vertical_range"}
                          THEN own[n][1] ELSE own[n])],
     signals_blocked |-> [n \in SpinNames |-> FALSE],
     updating_from_graphics |-> FALSE,
     slots |-> 1, emitted |-> 0, log |-> <<>>, raised |-> FALSE]

(* ROISelector.__init__, lines 50-102: h and r are the objects of the     *)
(* creator, arg the ROIOptions it passes (0 for None); line 250 ends the  *)
(* construction.                                                          *)
NewROISelector(h, r, arg, shape) ==
    update_spinboxes_from_roi(
        Constructed(h, r,
                    OwnOptions(IF arg = 0
                               THEN RectangularROIOptions(None, None, 0, 0)
                               ELSE h[r[arg].rectangle],
                               shape),
                    shape))

(* ---------------------------------------------------------------------- *)
(* State: a caller that clamps an ROI and then clamps the result again    *)
(* ---------------------------------------------------------------------- *)
VARIABLES
    heap,               \* the RectangularROIOptions objects, by identity
    rect_roi_options,   \* identity of the caller's ROI object
    array_2d_size,      \* (height, width)
    returned,           \* what each call returned to the caller, in order
    frames,             \* the locals each call of the inner function ended with
    pc                  \* "start", "once", "twice" or "raised"

(* round_to_divisor: the arguments of one call and what it returned.      *)
VARIABLES round_call

engine_vars == <<heap, rect_roi_options, array_2d_size, returned, frames, pc>>

round_vars == <<round_call>>

(* PhaseUnwrapWidget (interactions/phase_unwrap.py) *)
VARIABLES
    task,                   \* "none", "no_complex" or "ready"
    unwrap_button,          \* [enabled, text]
    array_viewer_enabled,
    unwrap_pc,              \* position inside unwrap_phase, or "idle"
    unwrap_exc,             \* the exception unwrap_phase has met, or "none"
    unwrap_runs,            \* calls of unwrap_phase so far
    phase_unwrapped         \* emissions of the phase_unwrapped signal

unwrap_vars == <<task, unwrap_button, array_viewer_enabled, unwrap_pc, unwrap_exc, unwrap_runs, phase_unwrapped>>

(* ROISelector and the widgets around it (interactions/roi_selector.py);  *)
(* the rectangle objects live in heap.                                    *)
VARIABLES
    roi_objects,            \* the ROIOptions objects, by identity
    roi_options,            \* ROISelector.roi_options (identity)
    array3d_shape,          \* (array3d.shape[1], array3d.shape[2])
    roi_item,               \* [pos, size] of the pg.RectROI
    spinboxes,              \* value of each QSpinBox
    signals_blocked,        \* blockSignals state of each QSpinBox
    updating_from_graphics, \* ROISelector._updating_from_graphics
    slots,                  \* connections of on_roi_changed to sigRegionChanged
    emitted,                \* roi_changed emissions of the last event
    log,                    \* handler bodies run in the last event
    raised,                 \* the last event ended in an exception
    last_event,             \* "none", "drag", "spinbox", "set_roi_options", ...
    widget,                 \* which widget the session is about
    creator,                \* [roi, rect]: the creator's own objects (0: none)
    gui_state,              \* "open", "finished" or "closed"
    masks_from_roi,         \* projections.options.masks_from_roi (identity)
    masks_built_from,       \* the rectangle the masks were generated from
    options,                \* GetBoxBoundsFromROISelector.options
    launch_result,          \* the dict result of launch_crop_window_selection
    launch_returned,        \* what launch_crop_window_selection returned
    edits                   \* drags, spinbox edits, set_roi_options calls so far

selector_vars == <<roi_objects, roi_options, array3d_shape, roi_item, spinboxes, signals_blocked, updating_from_graphics, slots, emitted, log, raised>>

session_vars == <<last_event, widget, creator, gui_state, masks_from_roi, masks_built_from, options, launch_result, launch_returned, edits>>

gui_vars == <<selector_vars, session_vars>>

(* the engine variables a selector session leaves alone *)
engine_rest == <<rect_roi_options, array_2d_size, returned, frames, pc>>

(* One conversion of options to the rectangle on screen and back.         *)
VARIABLES round_trip

trip_vars == <<round_trip>>

vars == <<engine_vars, round_vars, unwrap_vars, gui_vars, trip_vars>>

(* The parts of the state a specification does not use stay as they are   *)
(* here.                                                                  *)
EngineIdle ==
    /\ heap = <<>>
    /\ rect_roi_options = 0
    /\ array_2d_size = <<0, 0>>
    /\ returned = <<>>
    /\ frames = <<>>
    /\ pc = "idle"

RoundIdle == round_call = [state |-> "idle"]

TripIdle == round_trip = [state |-> "idle"]

GuiIdle ==
    /\ roi_objects = <<>>
    /\ roi_options = 0
    /\ array3d_shape = <<0, 0>>
    /\ roi_item = [pos |-> <<0, 0>>, size |-> <<0, 0>>]
    /\ spinboxes = <<>>
    /\ signals_blocked = <<>>
    /\ updating_from_graphics = FALSE
    /\ slots = 0
    /\ emitted = 0
    /\ log = <<>>
    /\ raised = FALSE
    /\ last_event = "none"
    /\ widget = "absent"
    /\ creator = [roi |-> 0, rect |-> 0]
    /\ gui_state = "absent"
    /\ masks_from_roi = 0
    /\ masks_built_from = <<>>
    /\ options = <<>>
    /\ launch_result = <<>>
    /\ launch_returned = <<>>
    /\ edits = 0

UnwrapIdle ==
    /\ task = "none"
    /\ unwrap_button = [enabled |-> FALSE, text |-> ""]
    /\ array_viewer_enabled = FALSE
    /\ unwrap_pc = "absent"
    /\ unwrap_exc = "none"
    /\ unwrap_runs = 0
    /\ phase_unwrapped = 0

Init ==
    /\ \E hr \in Ranges, vr \in Ranges, ho \in Offsets, vo \in Offsets :
           heap = <<RectangularROIOptions(hr, vr, ho, vo)>>
    /\ rect_roi_options = 1
    /\ array_2d_size \in Dims \X Dims
    /\ returned = <<>>
    /\ frames = <<>>
    /\ pc = "start"
    /\ RoundIdle
    /\ UnwrapIdle
    /\ GuiIdle
    /\ TripIdle

(* One call of force_rectangular_roi_in_bounds on the object arg.         *)
CallOn(arg, next_pc) ==
    LET res == force_rectangular_roi_in_bounds(heap, arg, array_2d_size)
    IN IF res.frame.raised
       THEN /\ pc' = "raised"
            /\ UNCHANGED <<heap, rect_roi_options, array_2d_size,
                           returned, frames>>
       ELSE /\ heap' = res.heap
            /\ returned' = Append(returned, res.value)
            /\ frames' = Append(frames, res.frame)
            /\ pc' = next_pc
            /\ UNCHANGED <<rect_roi_options, array_2d_size>>

(* new = force_rectangular_roi_in_bounds(roi, shape) *)
Clamp ==
    /\ pc = "start"
    /\ CallOn(rect_roi_options, "once")
    /\ UNCHANGED <<round_vars, unwrap_vars, gui_vars, trip_vars>>

(* again = force_rectangular_roi_in_bounds(new, shape) *)
ClampAgain ==
    /\ pc = "once"
    /\ CallOn(returned[1].ref, "twice")
    /\ UNCHANGED <<round_vars, unwrap_vars, gui_vars, trip_vars>>

Next == Clamp \/ ClampAgain

Spec == Init /\ [][Next]_vars

(* ---------------------------------------------------------------------- *)
(* round_to_divisor applied once to a scalar or to a short sequence       *)
(* ---------------------------------------------------------------------- *)
Values == (-MaxValue)..MaxValue

SeqInputs == UNION {[1..n -> Values] : n \in 0..MaxSeqLen}

RoundInputs ==
    {[scalar |-> TRUE, v |-> x] : x \in Values}
        \cup {[scalar |-> FALSE, v |-> q] : q \in SeqInputs}

InitRound ==
    /\ \E input \in RoundInputs, round_type \in RoundType,
           divisor \in 1..MaxDivisor :
           round_call = [state |-> "called", input |-> input,
                         round_type |-> round_type, divisor |-> divisor]
    /\ EngineIdle
    /\ UnwrapIdle
    /\ GuiIdle
    /\ TripIdle

Round ==
    /\ round_call.state = "called"
    /\ round_call' =
           [state |-> "returned", input |-> round_call.input,
            round_type |-> round_call.round_type,
            divisor |-> round_call.divisor,
            result |-> round_to_divisor(round_call.input,
                           round_call.round_type, round_call.divisor)]
    /\ UNCHANGED <<engine_vars, unwrap_vars, gui_vars, trip_vars>>

NextRound == Round

SpecRound == InitRound /\ [][NextRound]_vars

(* ---------------------------------------------------------------------- *)
(* interactions/phase_unwrap.py: PhaseUnwrapWidget                        *)
(* ---------------------------------------------------------------------- *)
(* After __init__ (lines 59-131): the constructor reads                   *)
(* task.complex_projections.options at line 91, so a widget exists only   *)
(* for a task with complex projections; the button is enabled and reads   *)
(* "Unwrap Phase", the array viewer is disabled.                          *)
InitUnwrap ==
    /\ task = "ready"
    /\ unwrap_button = [enabled |-> TRUE, text |-> "Unwrap Phase"]
    /\ array_viewer_enabled = FALSE
    /\ unwrap_pc = "idle"
    /\ unwrap_exc = "none"
    /\ unwrap_runs = 0
    /\ phase_unwrapped = 0
    /\ EngineIdle
    /\ RoundIdle
    /\ GuiIdle
    /\ TripIdle

(* set_task, lines 148-163 *)
set_task ==
    /\ unwrap_pc = "idle"
    /\ \E t \in {"none", "no_complex", "ready"} :
           /\ task' = t
           /\ unwrap_button' =
                  [unwrap_button EXCEPT !.enabled = (t = "ready")]
    /\ UNCHANGED <<array_viewer_enabled, unwrap_pc, unwrap_exc,
                   unwrap_runs, phase_unwrapped>>
    /\ UNCHANGED <<engine_vars, round_vars, gui_vars, trip_vars>>

(* unwrap_phase, lines 169-172: entered by a click on the enabled button  *)
(* or by a direct call.                                                   *)
UnwrapBegin ==
    /\ unwrap_pc = "idle"
    /\ unwrap_runs < MaxRuns
    /\ unwrap_button' = [enabled |-> FALSE, text |-> "Unwrapping Phase..."]
    /\ unwrap_pc' = "unwrapping"
    /\ unwrap_exc' = "none"
    /\ unwrap_runs' = unwrap_runs + 1
    /\ UNCHANGED <<task, array_viewer_enabled, phase_unwrapped>>
    /\ UNCHANGED <<engine_vars, round_vars, gui_vars, trip_vars>>

(* lines 179-182: task.get_unwrapped_phase under the loading bar returns  *)
(* or raises; without a task the attribute access raises.                 *)
UnwrapWork ==
    /\ unwrap_pc = "unwrapping"
    /\ \E outcome \in {"none", "Exception", "BaseException"} :
           /\ task = "none" => outcome = "Exception"
           /\ unwrap_exc' = outcome
           /\ unwrap_pc' = CASE outcome = "none" -> "display"
                              [] outcome = "Exception" -> "except"
                              [] outcome = "BaseException" -> "finally"
    /\ UNCHANGED <<task, unwrap_button, array_viewer_enabled, unwrap_runs,
                   phase_unwrapped>>
    /\ UNCHANGED <<engine_vars, round_vars, gui_vars, trip_vars>>

(* lines 185-200: the viewer is refilled (which may raise), then enabled, *)
(* then phase_unwrapped is emitted.                                       *)
UnwrapDisplay ==
    /\ unwrap_pc = "display"
    /\ \E outcome \in {"none", "Exception"} :
           /\ unwrap_exc' = outcome
           /\ IF outcome = "none"
              THEN /\ array_viewer_enabled' = TRUE
                   /\ phase_unwrapped' = phase_unwrapped + 1
                   /\ unwrap_pc' = "finally"
              ELSE /\ unwrap_pc' = "except"
                   /\ UNCHANGED <<array_viewer_enabled, phase_unwrapped>>
    /\ UNCHANGED <<task, unwrap_button, unwrap_runs>>
    /\ UNCHANGED <<engine_vars, round_vars, gui_vars, trip_vars>>

(* lines 202-213: except Exception shows the modal error box.             *)
UnwrapExcept ==
    /\ unwrap_pc = "except"
    /\ unwrap_pc' = "finally"
    /\ UNCHANGED <<task, unwrap_button, array_viewer_enabled, unwrap_exc,
                   unwrap_runs, phase_unwrapped>>
    /\ UNCHANGED <<engine_vars, round_vars, gui_vars, trip_vars>>

(* The clean-up as it would be at the end of the try block: it runs only  *)
(* when nothing was raised.                                               *)
UnwrapFinally_OnSuccessOnly ==
    /\ unwrap_pc = "finally"
    /\ unwrap_button' =
           IF unwrap_exc = "none"
           THEN [enabled |-> TRUE, text |-> "Unwrap Phase"]
           ELSE unwrap_button
    /\ unwrap_pc' = "idle"
    /\ UNCHANGED <<task, array_viewer_enabled, unwrap_exc, unwrap_runs,
                   phase_unwrapped>>
    /\ UNCHANGED <<engine_vars, round_vars, gui_vars, trip_vars>>

(* lines 214-217: finally *)
UnwrapFinally ==
    /\ unwrap_pc = "finally"
    /\ unwrap_button' = [enabled |-> TRUE, text |-> "Unwrap Phase"]
    /\ unwrap_pc' = "idle"
    /\ UNCHANGED <<task, array_viewer_enabled, unwrap_exc, unwrap_runs,
                   phase_unwrapped>>
    /\ UNCHANGED <<engine_vars, round_vars, gui_vars, trip_vars>>

NextUnwrap ==
    \/ set_task
    \/ UnwrapBegin
    \/ UnwrapWork
    \/ UnwrapDisplay
    \/ UnwrapExcept
    \/ UnwrapFinally

SpecUnwrap == InitUnwrap /\ [][NextUnwrap]_vars

(* ---------------------------------------------------------------------- *)
(* interactions/roi_selector.py: one session of a selector widget         *)
(* ---------------------------------------------------------------------- *)
WidgetKinds == {"ROISelector", "MaskFromROISelector", "GetBoxBounds_CropOptions", "GetBoxBounds_RectangularROIOptions"}

ImageShapes == {<<MaxImage - 1, MaxImage>>}

(* a range is unset, empty, one pixel or MaxGuiRange pixels *)
GuiRanges == {None, Some(0), Some(1), Some(MaxGuiRange)}

(* the creator's options have their offsets at the default *)
GuiOffsets == {0}

GuiRects ==
    {RectangularROIOptions(hr, vr, ho, vo) :
        hr \in GuiRanges, vr \in GuiRanges,
        ho \in GuiOffsets, vo \in GuiOffsets}

(* a new options object: ranges chosen, offsets at their default (0) *)
NewRects ==
    {RectangularROIOptions(hr, vr, 0, 0) :
        hr \in GuiRanges, vr \in GuiRanges}

DragPositions == (-1)..MaxDragPos

(* the selector and the objects it can reach, at the start of an event *)
World ==
    [heap |-> heap, roi |-> roi_objects, roi_options |-> roi_options,
     shape |-> array3d_shape, roi_item |-> roi_item,
     spinboxes |-> spinboxes, signals_blocked |-> signals_blocked,
     updating_from_graphics |-> updating_from_graphics,
     slots |-> slots, emitted |-> 0, log |-> <<>>, raised |-> FALSE]

InitialWorld(w) ==
    /\ heap = w.heap
    /\ roi_objects = w.roi
    /\ roi_options = w.roi_options
    /\ array3d_shape = w.shape
    /\ roi_item = w.roi_item
    /\ spinboxes = w.spinboxes
    /\ signals_blocked = w.signals_blocked
    /\ updating_from_graphics = w.updating_from_graphics
    /\ slots = w.slots
    /\ emitted = w.emitted
    /\ log = w.log
    /\ raised = w.raised

Install(w) ==
    /\ heap' = w.heap
    /\ roi_objects' = w.roi
    /\ roi_options' = w.roi_options
    /\ array3d_shape' = w.shape
    /\ roi_item' = w.roi_item
    /\ spinboxes' = w.spinboxes
    /\ signals_blocked' = w.signals_blocked
    /\ updating_from_graphics' = w.updating_from_graphics
    /\ slots' = w.slots
    /\ emitted' = w.emitted
    /\ log' = w.log
    /\ raised' = w.raised

(* The widget right after its constructor.  ROISelector (lines 75-98)     *)
(* gets the creator's ROIOptions or None; MaskFromROISelector (379-397)   *)
(* passes projections.options.masks_from_roi; GetBoxBoundsFromROISelector *)
(* (420-461) builds an ROIOptions from the caller's CropOptions (fields   *)
(* copied) or around the caller's RectangularROIOptions (same object).    *)
InitGui ==
    /\ \E kind \in WidgetKinds, given \in GuiRects, none \in BOOLEAN,
          shape \in ImageShapes :
          /\ none => (kind = "ROISelector"
                      /\ given = RectangularROIOptions(None, None, 0, 0))
          /\ widget = kind
          /\ IF none
             THEN /\ \E w \in {NewROISelector(<<>>, <<>>, 0, shape)} :
                        InitialWorld(w)
                  /\ creator = [roi |-> 0, rect |-> 0]
             ELSE IF kind = "GetBoxBounds_CropOptions"
             THEN /\ \E w \in {NewROISelector(<<given, given>>,
                                          <<ROIOptions(2)>>, 1, shape)} :
                        InitialWorld(w)
                  /\ creator = [roi |-> 0, rect |-> 1]
             ELSE /\ \E w \in {NewROISelector(<<given>>,
                                          <<ROIOptions(1)>>, 1, shape)} :
                        InitialWorld(w)
                  /\ creator =
                        [roi |-> IF kind = "GetBoxBounds_RectangularROIOptions"
                                 THEN 0 ELSE 1,
                         rect |-> 1]
          /\ masks_from_roi = IF kind = "MaskFromROISelector" THEN 1 ELSE 0
    /\ last_event = "none"
    /\ gui_state = "open"
    /\ masks_built_from = <<>>
    /\ options = <<>>
    /\ launch_result = <<>>
    /\ launch_returned = <<>>
    /\ edits = 0
    /\ rect_roi_options = 0
    /\ array_2d_size = <<0, 0>>
    /\ returned = <<>>
    /\ frames = <<>>
    /\ pc = "idle"
    /\ RoundIdle
    /\ UnwrapIdle
    /\ TripIdle

(* The objects the creator made; after them comes the one object only    *)
(* the selector holds (its copy, or the last new object it was given).    *)
HeapBase ==
    IF creator.rect = 0 THEN 0
    ELSE IF widget = "GetBoxBounds_CropOptions" THEN 2 ELSE 1

RoiBase == IF creator.rect = 0 THEN 0 ELSE 1

session_rest == <<widget, creator, gui_state, masks_from_roi, masks_built_from, options, launch_result, launch_returned>>

(* The user moves the rectangle with the mouse (translateSnap: whole      *)
(* pixels), drags the handle of the bottom-right corner (the top-left     *)
(* corner stays, scaleSnap: whole pixels) or drags the handle of the      *)
(* top-left corner (the bottom-right corner stays); a size stays          *)
(* positive.  sigRegionChanged is emitted once for the change.            *)
Drag ==
    /\ gui_state = "open"
    /\ edits < MaxEdits
    /\ \E item \in
          {[roi_item EXCEPT !.pos = <<px, py>>] :
              px \in DragPositions, py \in DragPositions}
          \cup {[roi_item EXCEPT !.size = <<sx, sy>>] :
              sx \in 1..MaxGuiRange, sy \in 1..MaxGuiRange}
          \cup {[pos |-> <<px, py>>,
                 size |-> <<roi_item.pos[1] + roi_item.size[1] - px,
                            roi_item.pos[2] + roi_item.size[2] - py>>] :
              px \in DragPositions, py \in DragPositions} :
          /\ item.size[1] >= 1
          /\ item.size[2] >= 1
          /\ item # roi_item
          /\ \E w \in {Deliver([World EXCEPT !.roi_item = item], slots)} :
                Install(w)
    /\ last_event' = "drag"
    /\ edits' = edits + 1
    /\ UNCHANGED session_rest
    /\ UNCHANGED <<engine_rest, round_vars, unwrap_vars, trip_vars>>

(* The user changes the value of one spinbox (within its range).          *)
SpinboxEdit ==
    /\ gui_state = "open"
    /\ edits < MaxEdits
    /\ \E name \in SpinNames, v \in (-1)..MaxGuiRange :
          /\ v # spinboxes[name]
          /\ SpinBound(name, v) = v
          /\ name \in {"horizontal_offset", "vertical_offset"} => v <= 1
          /\ \E w \in {setValue(World, name, v)} : Install(w)
    /\ last_event' = "spinbox"
    /\ edits' = edits + 1
    /\ UNCHANGED session_rest
    /\ UNCHANGED <<engine_rest, round_vars, unwrap_vars, trip_vars>>

(* A caller of set_roi_options (lines 359-375) passes the object it gave  *)
(* to the constructor, the object get_roi_options returned, or a new      *)
(* one; the object only the selector held is dropped when the selector   *)
(* lets go of it.                                                         *)
SetRoiOptions ==
    /\ gui_state = "open"
    /\ edits < MaxEdits
    /\ widget = "ROISelector"
    /\ \/ /\ creator.roi # 0
          /\ \E w \in {set_roi_options(
                           [World EXCEPT
                               !.heap = SubSeq(heap, 1, HeapBase),
                               !.roi = SubSeq(roi_objects, 1, RoiBase)],
                           creator.roi)} : Install(w)
       \/ \E w \in {set_roi_options(World, roi_options)} : Install(w)
       \/ \E new \in NewRects :
             LET h1 == Append(SubSeq(heap, 1, HeapBase), new)
                 r1 == Append(SubSeq(roi_objects, 1, RoiBase),
                              ROIOptions(Len(h1)))
             IN \E w \in {set_roi_options(
                             [World EXCEPT !.heap = h1, !.roi = r1],
                             Len(r1))} : Install(w)
    /\ last_event' = "set_roi_options"
    /\ edits' = edits + 1
    /\ UNCHANGED session_rest
    /\ UNCHANGED <<engine_rest, round_vars, unwrap_vars, trip_vars>>

(* MaskFromROISelector.finish, lines 399-402; get_masks_from_roi_selection *)
(* reads the rectangle of projections.options.masks_from_roi.             *)
FinishMask ==
    /\ gui_state = "open"
    /\ UNCHANGED edits
    /\ widget = "MaskFromROISelector"
    /\ masks_from_roi' = roi_options
    /\ masks_built_from' = <<heap[roi_objects[roi_options].rectangle]>>
    /\ gui_state' = "finished"
    /\ last_event' = "finish"
    /\ UNCHANGED <<heap, selector_vars, widget, creator, options,
                   launch_result, launch_returned>>
    /\ UNCHANGED <<engine_rest, round_vars, unwrap_vars, trip_vars>>

(* GetBoxBoundsFromROISelector.finish (463-477) and, in                   *)
(* launch_crop_window_selection, the slot on_crop_region_selected         *)
(* (561-563) that rectangular_roi_selected runs.                          *)
FinishBox ==
    /\ gui_state = "open"
    /\ UNCHANGED edits
    /\ widget \in {"GetBoxBounds_CropOptions",
                   "GetBoxBounds_RectangularROIOptions"}
    /\ LET res == force_rectangular_roi_in_bounds(
                      heap, roi_objects[roi_options].rectangle,
                      array3d_shape)
           rect == res.heap[res.value.ref]
           built == IF widget = "GetBoxBounds_CropOptions"
                    THEN [class |-> "CropOptions", enabled |-> TRUE,
                          horizontal_range |-> rect.horizontal_range,
                          vertical_range |-> rect.vertical_range,
                          horizontal_offset |-> rect.horizontal_offset,
                          vertical_offset |-> rect.vertical_offset]
                    ELSE [class |-> "RectangularROIOptions",
                          horizontal_range |-> rect.horizontal_range,
                          vertical_range |-> rect.vertical_range,
                          horizontal_offset |-> rect.horizontal_offset,
                          vertical_offset |-> rect.vertical_offset]
       IN /\ heap' = res.heap
          /\ roi_objects' = [roi_objects EXCEPT
                                ![roi_options].rectangle = res.value.ref]
          /\ options' = <<built>>
          /\ launch_result' = IF widget = "GetBoxBounds_CropOptions"
                              THEN <<built>> ELSE launch_result
    /\ gui_state' = "finished"
    /\ last_event' = "finish"
    /\ UNCHANGED <<roi_options, array3d_shape, roi_item, spinboxes,
                   signals_blocked, updating_from_graphics, slots,
                   emitted, log, raised>>
    /\ UNCHANGED <<widget, creator, masks_from_roi, masks_built_from,
                   launch_returned>>
    /\ UNCHANGED <<engine_rest, round_vars, unwrap_vars, trip_vars>>

(* The user closes the window without pressing "Select and Finish"; in    *)
(* launch_crop_window_selection app.exec() returns with result == {}.     *)
CloseWindow ==
    /\ gui_state = "open"
    /\ UNCHANGED edits
    /\ gui_state' = "closed"
    /\ last_event' = "close"
    /\ UNCHANGED <<heap, selector_vars, widget, creator, masks_from_roi,
                   masks_built_from, options, launch_result,
                   launch_returned>>
    /\ UNCHANGED <<engine_rest, round_vars, unwrap_vars, trip_vars>>

(* lines 568-577 with the else branch keeping the argument *)
launch_crop_window_selection_KeepsArgument(result, crop_options) ==
    IF result # <<>> THEN Some(result[1]) ELSE Some(crop_options)

(* lines 568-577: what launch_crop_window_selection returns once the      *)
(* event loop has ended, as an Optional[CropOptions].                     *)
launch_crop_window_selection(result, crop_options) ==
    IF result # <<>> THEN Some(result[1]) ELSE None

(* the CropOptions the caller passed, as launch_crop_window_selection     *)
(* holds it in crop_options (lines 553-555)                               *)
CallerCropOptions ==
    [class |-> "CropOptions", enabled |-> FALSE,
     horizontal_range |-> heap[creator.rect].horizontal_range,
     vertical_range |-> heap[creator.rect].vertical_range,
     horizontal_offset |-> heap[creator.rect].horizontal_offset,
     vertical_offset |-> heap[creator.rect].vertical_offset]

LaunchReturn ==
    /\ widget = "GetBoxBounds_CropOptions"
    /\ UNCHANGED edits
    /\ gui_state \in {"finished", "closed"}
    /\ launch_returned = <<>>
    /\ launch_returned' =
          <<launch_crop_window_selection(launch_result, CallerCropOptions)>>
    /\ last_event' = "return"
    /\ UNCHANGED <<heap, selector_vars, widget, creator, gui_state,
                   masks_from_roi, masks_built_from, options,
                   launch_result>>
    /\ UNCHANGED <<engine_rest, round_vars, unwrap_vars, trip_vars>>

NextGui ==
    \/ Drag
    \/ SpinboxEdit
    \/ SetRoiOptions
    \/ FinishMask
    \/ FinishBox
    \/ CloseWindow
    \/ LaunchReturn

SpecGui == InitGui /\ [][NextGui]_vars

(* ---------------------------------------------------------------------- *)
(* ROISelector: options to graphics and back                              *)
(* ---------------------------------------------------------------------- *)
TripOptions ==
    {RectangularROIOptions(Some(hr), Some(vr), ho, vo) :
        hr \in 1..MaxTripRange, vr \in 1..MaxTripRange,
        ho \in (-MaxTripOffset)..MaxTripOffset,
        vo \in (-MaxTripOffset)..MaxTripOffset}

(* the selector built for the options of the round trip *)
TripSelector == Constructed(<<>>, <<>>, round_trip.options, round_trip.shape)

InitTrip ==
    /\ \E o \in TripOptions, shape \in ImageShapes :
          round_trip = [state |-> "options", options |-> o, shape |-> shape]
    /\ EngineIdle
    /\ RoundIdle
    /\ UnwrapIdle
    /\ GuiIdle

(* setup_roi_graphics, lines 208-229 (the same arithmetic as              *)
(* update_roi_graphics_from_options, 326-345): position and size of the   *)
(* rectangle for the options.                                             *)
ToGraphics ==
    /\ round_trip.state = "options"
    /\ round_trip' =
          [state |-> "graphics", options |-> round_trip.options,
           shape |-> round_trip.shape, roi_item |-> TripSelector.roi_item]
    /\ UNCHANGED <<engine_vars, round_vars, unwrap_vars, gui_vars>>

(* on_roi_changed, lines 259-280: the options read back from the          *)
(* rectangle.                                                             *)
ToOptions ==
    /\ round_trip.state = "graphics"
    /\ round_trip' =
          [state |-> "back", options |-> round_trip.options,
           shape |-> round_trip.shape, roi_item |-> round_trip.roi_item,
           back |-> Rect(OptionsFromGraphics(
                        [TripSelector EXCEPT
                            !.roi_item = round_trip.roi_item]))]
    /\ UNCHANGED <<engine_vars, round_vars, unwrap_vars, gui_vars>>

NextTrip == ToGraphics \/ ToOptions

SpecTrip == InitTrip /\ [][NextTrip]_vars

(* ---------------------------------------------------------------------- *)
(* Vocabulary of the properties                                           *)
(* ---------------------------------------------------------------------- *)
Input == heap[rect_roi_options]

Height == array_2d_size[1]

Width == array_2d_size[2]

Called == pc \in {"once", "twice"}

(* extents unset or non-negative *)
WellFormedRoi ==
    /\ Input.horizontal_range = None \/ Input.horizontal_range[1] >= 0
    /\ Input.vertical_range = None \/ Input.vertical_range[1] >= 0

PositiveShape == Height > 0 /\ Width > 0

(* the candidate bounds of the caller's ROI, before any clamping *)
Cand ==
    CandidateBounds(Input.horizontal_range, Input.vertical_range,
                    Input.horizontal_offset, Input.vertical_offset,
                    array_2d_size)

CandInside ==
    /\ Cand.x_start >= 0 /\ Cand.x_end <= Width
    /\ Cand.y_start >= 0 /\ Cand.y_end <= Height

(* the ROI object the first call returned *)
FirstResult == heap[returned[1].ref]

(* ---------------------------------------------------------------------- *)
(* C1: for every well-formed ROI and positive shape, the bounds the inner *)
(* function ends with satisfy 0 <= x_start < x_end <= width and           *)
(* 0 <= y_start < y_end <= height.                                        *)
(* ---------------------------------------------------------------------- *)
C1_InBounds ==
    (Called /\ WellFormedRoi /\ PositiveShape) =>
        LET f == frames[1]
        IN /\ 0 <= f.x_start /\ f.x_start < f.x_end /\ f.x_end <= Width
           /\ 0 <= f.y_start /\ f.y_start < f.y_end /\ f.y_end <= Height

(* ---------------------------------------------------------------------- *)
(* C2: an ROI with concrete extents whose candidate window lies inside    *)
(* the array comes back with the same four fields, and the flag is false. *)
(* ---------------------------------------------------------------------- *)
C2_IdempotentInBounds ==
    (/\ Called /\ WellFormedRoi /\ PositiveShape
     /\ Input.horizontal_range # None /\ Input.vertical_range # None
     /\ CandInside) =>
        /\ FirstResult = Input
        /\ frames[1].out_of_bounds = FALSE

(* ---------------------------------------------------------------------- *)
(* C3: clamping the output of a clamp again (same shape) returns an ROI   *)
(* equal field for field to the first output.                             *)
(* ---------------------------------------------------------------------- *)
C3_DoubleClampStable ==
    (pc = "twice" /\ WellFormedRoi /\ PositiveShape) =>
        heap[returned[2].ref] = FirstResult

(* ---------------------------------------------------------------------- *)
(* C4: with both extents unset and offsets 0, the result is the full      *)
(* array: extents (W, H), offsets (0, 0).                                 *)
(* ---------------------------------------------------------------------- *)
C4_UnsetIsFullArray ==
    (/\ Called /\ PositiveShape
     /\ Input = RectangularROIOptions(None, None, 0, 0)) =>
        FirstResult = RectangularROIOptions(Some(Width), Some(Height), 0, 0)

Malformed == ~WellFormedRoi \/ ~PositiveShape

(* what the inner function computes for the caller's ROI *)
Computed ==
    force_roi_parameters_into_array_bounds(
        Input.horizontal_range, Input.vertical_range,
        Input.horizontal_offset, Input.vertical_offset, array_2d_size)

(* the candidate window that an (extent, offset) description stands for *)
WindowOf(roi) ==
    LET b == CandidateBounds(roi.horizontal_range, roi.vertical_range,
                 roi.horizontal_offset, roi.vertical_offset, array_2d_size)
    IN <<b.x_start, b.x_end, b.y_start, b.y_end>>

(* ---------------------------------------------------------------------- *)
(* C5 (as stated): a negative extent or a non-positive array dimension    *)
(* ends in an error and no ROI; well-formed input raises nothing.         *)
(* ---------------------------------------------------------------------- *)
C5_MalformedFailsFast ==
    (pc # "start") =>
        IF Malformed THEN pc = "raised" /\ returned = <<>>
                     ELSE pc # "raised"

(* C5 (amended): no input, malformed or well-formed, ends in an error;    *)
(* every call returns an ROI with concrete extents.                       *)
C5_NeverRaises ==
    /\ pc # "raised"
    /\ Called => /\ Len(returned) >= 1
                 /\ FirstResult.horizontal_range # None
                 /\ FirstResult.vertical_range # None

C5_Witness ==
    /\ Called
    /\ Input.horizontal_range # None /\ Input.horizontal_range[1] < 0
    /\ Height = 0
    /\ Len(returned) >= 1

(* ---------------------------------------------------------------------- *)
(* C6: out_of_bounds is true exactly when a candidate edge was out of the *)
(* array, and false exactly when the returned extents and offsets stand   *)
(* for the same window as the candidate bounds.                           *)
(* ---------------------------------------------------------------------- *)
C6_FlagIffAdjusted ==
    Called =>
        /\ frames[1].out_of_bounds <=>
              \/ Cand.x_start < 0 \/ Cand.x_end > Width
              \/ Cand.y_start < 0 \/ Cand.y_end > Height
        /\ ~frames[1].out_of_bounds <=>
              (WindowOf(FirstResult) = WindowOf(Input))

C6_Witness ==
    /\ Called
    /\ frames[1].out_of_bounds
    /\ Cand.y_end > Height
    /\ Cand.x_start >= 0 /\ Cand.x_end <= Width /\ Cand.y_start >= 0
    /\ WindowOf(FirstResult) # WindowOf(Input)

(* ---------------------------------------------------------------------- *)
(* C7 (as stated): the wrapper hands its caller the corrected ROI and the *)
(* out_of_bounds flag as was_clamped.                                     *)
(* ---------------------------------------------------------------------- *)
C7_ReturnsRoiAndFlag ==
    Called =>
        /\ FirstResult = RectangularROIOptions(Some(Computed.new_w_x),
               Some(Computed.new_w_y), Computed.c_x, Computed.c_y)
        /\ "was_clamped" \in DOMAIN returned[1]
        /\ returned[1].was_clamped = Computed.out_of_bounds

(* C7 (amended): the wrapper hands its caller the corrected ROI only,     *)
(* with extents and offsets exactly as the inner function computed them;  *)
(* the flag is not part of what is returned.                              *)
C7_ReturnsRoiOnly ==
    Called =>
        /\ FirstResult = RectangularROIOptions(Some(Computed.new_w_x),
               Some(Computed.new_w_y), Computed.c_x, Computed.c_y)
        /\ DOMAIN returned[1] = {"ref"}

C7_Witness ==
    /\ Called
    /\ Computed.out_of_bounds
    /\ Computed.new_w_x # Computed.new_w_y
    /\ Computed.c_x # Computed.c_y
    /\ DOMAIN returned[1] = {"ref"}

(* ---------------------------------------------------------------------- *)
(* C8: a call leaves every existing ROI object, its argument included,    *)
(* with the field values it had (unset extents stay unset), and returns   *)
(* an object that did not exist before.                                   *)
(* ---------------------------------------------------------------------- *)
C8_InputNotMutated ==
    [][(Len(returned') > Len(returned)) =>
          /\ \A i \in 1..Len(heap) : heap'[i] = heap[i]
          /\ returned'[Len(returned')].ref \notin 1..Len(heap)]_vars

C8_Witness ==
    /\ pc = "twice"
    /\ Input.horizontal_range = None
    /\ Input.vertical_range # None
    /\ frames[1].out_of_bounds
    /\ returned[1].ref # rect_roi_options
    /\ returned[2].ref # returned[1].ref

(* ---------------------------------------------------------------------- *)
(* C9: when both candidate edges of an axis are out of bounds, that axis  *)
(* ends with extent = the array dimension, offset = 0 and the flag set.   *)
(* ---------------------------------------------------------------------- *)
C9_DoublyViolated ==
    Called =>
        /\ (Cand.x_start < 0 /\ Cand.x_end > Width) =>
              /\ FirstResult.horizontal_range = Some(Width)
              /\ FirstResult.horizontal_offset = 0
              /\ frames[1].x_start = 0 /\ frames[1].x_end = Width
              /\ frames[1].out_of_bounds
        /\ (Cand.y_start < 0 /\ Cand.y_end > Height) =>
              /\ FirstResult.vertical_range = Some(Height)
              /\ FirstResult.vertical_offset = 0
              /\ frames[1].y_start = 0 /\ frames[1].y_end = Height
              /\ frames[1].out_of_bounds

C9_Witness ==
    /\ Called
    /\ Cand.x_start < 0 /\ Cand.x_end > Width
    /\ Input.horizontal_offset # 0
    /\ FirstResult.horizontal_range = Some(Width)
    /\ FirstResult.horizontal_offset = 0

(* ---------------------------------------------------------------------- *)
(* C10 (as stated): when only the low edge of an axis is out of bounds,   *)
(* the start becomes 0, the end stays, and the offset returned is         *)
(* cx_corrected - x0 with cx_corrected = x0 - new_half.                   *)
(* ---------------------------------------------------------------------- *)
C10_LowEdgeAsStated ==
    Called =>
        /\ (Cand.x_start < 0 /\ Cand.x_end <= Width) =>
              LET x0 == FloorHalf(Width)
                  new_half == FloorHalf(Cand.x_end - 0)
                  cx_corrected == x0 - new_half
              IN /\ frames[1].x_start = 0
                 /\ frames[1].x_end = Cand.x_end
                 /\ FirstResult.horizontal_offset = cx_corrected - x0
        /\ (Cand.y_start < 0 /\ Cand.y_end <= Height) =>
              LET y0 == FloorHalf(Height)
                  new_half == FloorHalf(Cand.y_end - 0)
                  cy_corrected == y0 - new_half
              IN /\ frames[1].y_start = 0
                 /\ frames[1].y_end = Cand.y_end
                 /\ FirstResult.vertical_offset = cy_corrected - y0

(* C10 (amended): ... the offset returned is new_half - x0, that is       *)
(* cx_corrected - x0 with cx_corrected = new_half.                        *)
C10_LowEdge ==
    Called =>
        /\ (Cand.x_start < 0 /\ Cand.x_end <= Width) =>
              LET x0 == FloorHalf(Width)
                  new_half == FloorHalf(Cand.x_end - 0)
              IN /\ frames[1].x_start = 0
                 /\ frames[1].x_end = Cand.x_end
                 /\ FirstResult.horizontal_offset = new_half - x0
        /\ (Cand.y_start < 0 /\ Cand.y_end <= Height) =>
              LET y0 == FloorHalf(Height)
                  new_half == FloorHalf(Cand.y_end - 0)
              IN /\ frames[1].y_start = 0
                 /\ frames[1].y_end = Cand.y_end
                 /\ FirstResult.vertical_offset = new_half - y0

C10_Witness ==
    /\ Called
    /\ WellFormedRoi /\ PositiveShape
    /\ Cand.x_start < 0 /\ Cand.x_end <= Width /\ Cand.x_end > 0
    /\ frames[1].x_start = 0
    /\ FirstResult.horizontal_offset # Input.horizontal_offset

(* ---------------------------------------------------------------------- *)
(* C11 (as stated): when only the high edge of an axis is out of bounds,  *)
(* the end becomes the array dimension, the start stays, and the offset   *)
(* returned is new_half = floor((dimension - start) / 2).                 *)
(* ---------------------------------------------------------------------- *)
C11_HighEdgeAsStated ==
    Called =>
        /\ (Cand.x_start >= 0 /\ Cand.x_end > Width) =>
              LET new_half == FloorHalf(Width - Cand.x_start)
              IN /\ frames[1].x_end = Width
                 /\ frames[1].x_start = Cand.x_start
                 /\ FirstResult.horizontal_offset = new_half
        /\ (Cand.y_start >= 0 /\ Cand.y_end > Height) =>
              LET new_half == FloorHalf(Height - Cand.y_start)
              IN /\ frames[1].y_end = Height
                 /\ frames[1].y_start = Cand.y_start
                 /\ FirstResult.vertical_offset = new_half

(* C11 (amended): ... the offset returned is floor(dimension / 2) -       *)
(* new_half.                                                              *)
C11_HighEdge ==
    Called =>
        /\ (Cand.x_start >= 0 /\ Cand.x_end > Width) =>
              LET new_half == FloorHalf(Width - Cand.x_start)
              IN /\ frames[1].x_end = Width
                 /\ frames[1].x_start = Cand.x_start
                 /\ FirstResult.horizontal_offset
                        = FloorHalf(Width) - new_half
        /\ (Cand.y_start >= 0 /\ Cand.y_end > Height) =>
              LET new_half == FloorHalf(Height - Cand.y_start)
              IN /\ frames[1].y_end = Height
                 /\ frames[1].y_start = Cand.y_start
                 /\ FirstResult.vertical_offset
                        = FloorHalf(Height) - new_half

C11_Witness ==
    /\ Called
    /\ WellFormedRoi /\ PositiveShape
    /\ Cand.x_start >= 0 /\ Cand.x_start < Width /\ Cand.x_end > Width
    /\ frames[1].x_end = Width
    /\ FirstResult.horizontal_offset # Input.horizontal_offset
    /\ FirstResult.horizontal_offset # FloorHalf(Width - Cand.x_start)

(* ---------------------------------------------------------------------- *)
(* C12: an odd extent e whose candidate window needs no clamping gives a  *)
(* window of e pixels, so the resolved extent equals the requested one.   *)
(* ---------------------------------------------------------------------- *)
C12_OddExtentKept ==
    (/\ Called /\ PositiveShape /\ CandInside
     /\ Input.horizontal_range # None
     /\ Input.horizontal_range[1] >= 0
     /\ Input.horizontal_range[1] % 2 = 1) =>
        /\ frames[1].x_end - frames[1].x_start = Input.horizontal_range[1]
        /\ FirstResult.horizontal_range = Input.horizontal_range

(* ---------------------------------------------------------------------- *)
(* C13: the bounds before clamping are floor(dim/2) + offset -/+          *)
(* floor(extent/2); when all four lie within the array they are the final *)
(* bounds and out_of_bounds is false.  Shape (100, 200), extent (50, 40), *)
(* offset (0, 0) gives x 75..125, y 30..70.                               *)
(* ---------------------------------------------------------------------- *)
C13_CandidateBounds ==
    (Called /\ PositiveShape) =>
        LET e_x == IF Input.horizontal_range = None THEN Width
                   ELSE Input.horizontal_range[1]
            e_y == IF Input.vertical_range = None THEN Height
                   ELSE Input.vertical_range[1]
            xs == (Width \div 2) + Input.horizontal_offset - (e_x \div 2)
            xe == (Width \div 2) + Input.horizontal_offset + (e_x \div 2)
            ys == (Height \div 2) + Input.vertical_offset - (e_y \div 2)
            ye == (Height \div 2) + Input.vertical_offset + (e_y \div 2)
            ex == force_roi_parameters_into_array_bounds(
                      Some(50), Some(40), 0, 0, <<100, 200>>)
        IN /\ <<Cand.x_start, Cand.x_end, Cand.y_start, Cand.y_end>>
                 = <<xs, xe, ys, ye>>
           /\ (xs >= 0 /\ xe <= Width /\ ys >= 0 /\ ye <= Height) =>
                 /\ <<frames[1].x_start, frames[1].x_end,
                      frames[1].y_start, frames[1].y_end>>
                       = <<xs, xe, ys, ye>>
                 /\ frames[1].out_of_bounds = FALSE
           /\ <<ex.x_start, ex.x_end, ex.y_start, ex.y_end>>
                 = <<75, 125, 30, 70>>
           /\ ex.out_of_bounds = FALSE

C13_Witness ==
    /\ Called /\ PositiveShape /\ WellFormedRoi
    /\ CandInside
    /\ Input.horizontal_range # None /\ Input.horizontal_range[1] = 3
    /\ Input.horizontal_offset # 0
    /\ frames[1].x_start = Cand.x_start
    /\ frames[1].x_end > frames[1].x_start
    /\ frames[1].out_of_bounds = FALSE

(* ---------------------------------------------------------------------- *)
(* C14: for an integer v and a positive divisor d the scalar result is a  *)
(* multiple of d: with CEIL the least one >= v, with FLOOR the greatest   *)
(* one <= v, with NEAREST one at distance at most d/2 from v; 7 with      *)
(* divisor 5 gives 10, 5 and 5.                                           *)
(* ---------------------------------------------------------------------- *)
C14_RoundToDivisor ==
    (round_call.state = "returned" /\ round_call.input.scalar) =>
        LET v == round_call.input.v
            d == round_call.divisor
            res == round_call.result.v
        IN /\ round_call.result.scalar
           /\ res % d = 0
           /\ round_call.round_type = "CEIL" => (res >= v /\ res - d < v)
           /\ round_call.round_type = "FLOOR" => (res <= v /\ res + d > v)
           /\ round_call.round_type = "NEAREST" =>
                 /\ 2 * (res - v) <= d /\ 2 * (v - res) <= d
           /\ (v = 7 /\ d = 5) =>
                 res = (CASE round_call.round_type = "CEIL" -> 10
                          [] round_call.round_type = "FLOOR" -> 5
                          [] round_call.round_type = "NEAREST" -> 5)

C14_Witness ==
    /\ round_call.state = "returned"
    /\ round_call.input = [scalar |-> TRUE, v |-> 7]
    /\ round_call.divisor = 5
    /\ round_call.round_type = "CEIL"
    /\ round_call.result.v = 10

(* ---------------------------------------------------------------------- *)
(* C18: while unwrap_phase runs the button is disabled; when it ends, on  *)
(* success and after any exception, the button is enabled and reads       *)
(* "Unwrap Phase"; the signal is emitted and the viewer enabled only in a *)
(* run in which nothing was raised.                                       *)
(* ---------------------------------------------------------------------- *)
C18_UnwrapButton ==
    [][/\ (unwrap_pc' # "idle") => ~unwrap_button'.enabled
       /\ (unwrap_pc # "idle" /\ unwrap_pc' = "idle") =>
             unwrap_button' = [enabled |-> TRUE, text |-> "Unwrap Phase"]
       /\ (\/ phase_unwrapped' # phase_unwrapped
           \/ array_viewer_enabled' # array_viewer_enabled) =>
             /\ unwrap_pc' = "finally"
             /\ unwrap_exc' = "none"
             /\ phase_unwrapped' = phase_unwrapped + 1
             /\ array_viewer_enabled']_vars

(* a run that raised has ended, after an earlier run succeeded *)
C18_Witness ==
    /\ unwrap_pc = "idle"
    /\ unwrap_runs >= 2
    /\ unwrap_exc = "BaseException"
    /\ phase_unwrapped = 1
    /\ array_viewer_enabled
    /\ unwrap_button = [enabled |-> TRUE, text |-> "Unwrap Phase"]

(* ---------------------------------------------------------------------- *)
(* ROISelector sessions                                                   *)
(* ---------------------------------------------------------------------- *)
HandlerReturned ==
    /\ last_event \in {"drag", "spinbox", "set_roi_options"}
    /\ ~raised

SelectorRect == heap[roi_objects[roi_options].rectangle]

(* C17: a drag, a spinbox edit or a set_roi_options call that returned    *)
(* has emitted roi_changed exactly once and has run no handler body       *)
(* besides its own (on_roi_changed for a drag, on_spinbox_changed for a   *)
(* spinbox edit, neither for set_roi_options); afterwards                 *)
(* _updating_from_graphics is false, no spinbox has its signals blocked   *)
(* and on_roi_changed is connected to sigRegionChanged exactly once.      *)
C17_OneEmissionNoRecursion ==
    HandlerReturned =>
        /\ emitted = 1
        /\ log = CASE last_event = "drag" -> <<"on_roi_changed">>
                   [] last_event = "spinbox" -> <<"on_spinbox_changed">>
                   [] OTHER -> <<>>
        /\ updating_from_graphics = FALSE
        /\ \A n \in SpinNames : ~signals_blocked[n]
        /\ slots = 1

(* a spinbox edit after an earlier edit has moved the rectangle to the    *)
(* place the options give                                                 *)
C17_Witness ==
    /\ last_event = "spinbox"
    /\ edits = 2
    /\ ~raised
    /\ log = <<"on_spinbox_changed">>
    /\ roi_item.pos = GraphicsPos(SelectorRect, array3d_shape)
    /\ roi_item.size = <<spinboxes["horizontal_range"],
                         spinboxes["vertical_range"]>>

(* C19: after on_roi_changed, on_spinbox_changed or set_roi_options has   *)
(* returned, the four spinbox values equal the four fields of             *)
(* roi_options.rectangle.                                                 *)
C19_SpinboxesShowOptions ==
    HandlerReturned =>
        /\ SelectorRect.horizontal_offset = spinboxes["horizontal_offset"]
        /\ SelectorRect.vertical_offset = spinboxes["vertical_offset"]
        /\ SelectorRect.horizontal_range = Some(spinboxes["horizontal_range"])
        /\ SelectorRect.vertical_range = Some(spinboxes["vertical_range"])

(* C20: no drag, spinbox edit or set_roi_options call changes an object   *)
(* of the creator: the ROIOptions passed to the constructor with its      *)
(* rectangle, projections.options.masks_from_roi, the caller's            *)
(* CropOptions or RectangularROIOptions keep their field values as long   *)
(* as no finish action has run.                                           *)
C20_CreatorObjectsKept ==
    [][(gui_state = "open" /\ gui_state' = "open") =>
          /\ creator.rect # 0 => heap'[creator.rect] = heap[creator.rect]
          /\ creator.roi # 0 =>
                roi_objects'[creator.roi] = roi_objects[creator.roi]
          /\ masks_from_roi' = masks_from_roi]_vars

(* what force_rectangular_roi_in_bounds makes of the selector's rectangle *)
NormalizedSelectorRect ==
    LET res == force_rectangular_roi_in_bounds(
                   heap, roi_objects[roi_options].rectangle, array3d_shape)
    IN res.heap[res.value.ref]

(* C15: the ROI a finish action persists is the selector's ROI normalized *)
(* by force_rectangular_roi_in_bounds against the projections' 2D shape:  *)
(* the options GetBoxBoundsFromROISelector.finish publishes, and the ROI  *)
(* MaskFromROISelector.finish stores in masks_from_roi and builds the     *)
(* masks from.                                                            *)
C15_FinishNormalizes ==
    [][(gui_state = "open" /\ gui_state' = "finished") =>
          IF widget = "MaskFromROISelector"
          THEN /\ heap'[roi_objects'[masks_from_roi'].rectangle]
                     = NormalizedSelectorRect
               /\ masks_built_from' = <<NormalizedSelectorRect>>
          ELSE /\ options'[1].horizontal_range
                     = NormalizedSelectorRect.horizontal_range
               /\ options'[1].vertical_range
                     = NormalizedSelectorRect.vertical_range
               /\ options'[1].horizontal_offset
                     = NormalizedSelectorRect.horizontal_offset
               /\ options'[1].vertical_offset
                     = NormalizedSelectorRect.vertical_offset]_vars

C21_RoundTrip ==
    round_trip.state = "back" => round_trip.back = round_trip.options


====
